---- MODULE Spec2Model ----
(***************************************************************************)
(* A model of the `what` command line tool (package what_cli): the entity  *)
(* resolver of what_cli/matcher.py and the preview truncator of            *)
(* what_cli/entities/preview.py.                                           *)
(*                                                                         *)
(* Strings are modelled as sequences of one-character strings so that      *)
(* splitting, digit parsing and concatenation are computed, not assumed.   *)
(***************************************************************************)
EXTENDS Integers, Sequences, FiniteSets, TLC

VARIABLES
    files,       \* absolute paths that are existing regular files
    dirs,        \* absolute paths that are existing directories
    procs,       \* live processes: a set of [pid, name]
    users,       \* account names known to pwd
    mPc,         \* "idle" before a call of matcher.match, "done" after it
    mQuery,      \* the name argument of the last call
    mKinds,      \* the second positional argument of the last call, or NoKinds
    calls,       \* the classification tests called, in order (see Call)
    result,      \* the value the last call returned (NoneValue when it raised)
    exc,         \* the exception the last call raised (NoExc when it returned)
    pPc,         \* Preview: "constructed" after __init__, "rendered" after __rich_console__
    renderable,  \* Preview.renderable, as the segment stream the capture console renders
    max_height,  \* Preview.max_height
    lines,       \* the logical lines reconstructed by __rich_console__
    out,         \* the items __rich_console__ yielded, in order
    pExc,        \* the exception __rich_console__ raised, or "none"
    fc,          \* FileFactory.from_path: the path's attributes and the subtype chosen
    lay,         \* Entity.__rich_console__: the entity, the console and the layout chosen
    cli,         \* what_cli.__main__.main: the command line, what was printed, the exit code
    pe,          \* a Process entity, its process handle and the reads of get_sections
    ue,          \* a User entity under construction (__post_init__)
    fr,          \* a File entity, the file under it and the attribute reads made on it
    gs,          \* an entity's get_sections and the rendering of its Sections
    dr,          \* a Directory entity: the directory's items and its summary
    fp,          \* FilePermissions: a mode and the bits derived from it
    lin,         \* Process.get_lineage: the process tree and the walk
    rp,          \* find_process_by_pid: the call's position and outcome
    fm           \* File.match: the file system, the name and the result

matchVars == <<files, dirs, procs, users, mPc, mQuery, mKinds, calls, result, exc>>
previewVars == <<pPc, renderable, max_height, lines, out, pExc>>
entityVars == <<fc, lay, cli, pe, ue>>
fieldVars == <<fr, gs, dr, fp, lin, rp, fm>>
vars == <<files, dirs, procs, users, mPc, mQuery, mKinds, calls, result, exc,
          pPc, renderable, max_height, lines, out, pExc, fc, lay, cli, pe, ue,
          fr, gs, dr, fp, lin, rp, fm>>

(***************************************************************************)
(* Bounds                                                                  *)
(***************************************************************************)
MaxKinds == 3
MaxSegs == 2
MaxTextLen == 3
MaxHeight == 4

(***************************************************************************)
(* Generic helpers                                                         *)
(***************************************************************************)
Range(s) == {s[i] : i \in 1..Len(s)}

SeqsUpTo(S, n) == UNION {[1..k -> S] : k \in 0..n}

Min(a, b) == IF a < b THEN a ELSE b

(***************************************************************************)
(* The resolver: what_cli/matcher.py                                       *)
(***************************************************************************)
Digits == {"0", "1", "2", "3", "4", "5", "6", "7", "8", "9"}

DigitVal(c) ==
    CASE c = "0" -> 0 [] c = "1" -> 1 [] c = "2" -> 2 [] c = "3" -> 3
      [] c = "4" -> 4 [] c = "5" -> 5 [] c = "6" -> 6 [] c = "7" -> 7
      [] c = "8" -> 8 [] c = "9" -> 9

\* The queries of the model: a numeric string and a word.
Names == {<<"7">>, <<"s", "h">>}

\* The process ids of the model.
Pids == {7, 9}

Cwd == <<"/">>

\* int(name) succeeds: the name is a non-empty string of decimal digits.
is_int(name) == Len(name) > 0 /\ \A i \in 1..Len(name) : name[i] \in Digits

RECURSIVE int(_)
int(name) ==
    IF name = <<>> THEN 0
    ELSE 10 * int(SubSeq(name, 1, Len(name) - 1)) + DigitVal(name[Len(name)])

\* os.path.abspath: a relative name is joined to the working directory.
abspath(name) == IF Len(name) > 0 /\ name[1] = "/" THEN name ELSE Cwd \o name

\* The kinds argument of a call: absent, or the list that was passed.
NoKinds == [given |-> FALSE, list |-> <<>>]
KindsArg(list) == [given |-> TRUE, list |-> list]
NoExc == [type |-> "none", msg |-> <<>>]
NoneValue == [type |-> "None", path |-> <<>>, pid |-> 0, user |-> <<>>, idx |-> 0]

FileEntity(path) == [type |-> "File", path |-> path, pid |-> 0, user |-> <<>>, idx |-> 0]
ProcessEntity(pid) == [type |-> "Process", path |-> <<>>, pid |-> pid, user |-> <<>>, idx |-> 0]
UserEntity(name) == [type |-> "User", path |-> <<>>, pid |-> 0, user |-> name, idx |-> 0]
\* The return value of the mock kind at position i of a kind list.
MockValue(i) == [type |-> "Mock", path |-> <<>>, pid |-> 0, user |-> <<>>, idx |-> i]

\* One entry of the call log: the function called, the position of the kind
\* in the kind list (0 for a module-level function) and the argument passed.
Call(fn, idx, arg) == [fn |-> fn, idx |-> idx, arg |-> arg]

user_exists(us, username) == username \in us

\* psutil.pid_exists then psutil.Process(pid): the handle is the pid.
find_process_by_pid(ps, name) ==
    IF is_int(name) /\ (\E p \in ps : p.pid = int(name)) THEN int(name) ELSE 0

\* The first process of process_iter (ascending pid) with that name.
find_process_by_name(ps, name) ==
    LET hits == {p.pid : p \in {q \in ps : q.name = name}}
    IN IF hits = {} THEN 0 ELSE CHOOSE p \in hits : \A q \in hits : p <= q

\* matcher.match_process: a numeric name is looked up as a pid only.
match_process(ps, name) ==
    IF is_int(name) THEN find_process_by_pid(ps, name)
    ELSE find_process_by_name(ps, name)

\* matcher.match_file: FileFactory.from_path(abs_path) or None.
match_file(fs, ds, name) ==
    LET abs_path == abspath(name)
    IN IF abs_path \in fs \/ abs_path \in ds THEN FileEntity(abs_path) ELSE NoneValue

\* File.match of entities/file.py: the classification test of the File kind.
FileMatch(fs, ds, name) ==
    LET abs_path == abspath(name)
    IN IF abs_path \in fs \/ abs_path \in ds THEN FileEntity(abs_path) ELSE NoneValue

\* Process.match of entities/process.py: pid first, then the process name.
ProcessMatch(ps, name) ==
    LET byPid == find_process_by_pid(ps, name)
        process == IF byPid # 0 THEN byPid ELSE find_process_by_name(ps, name)
    IN IF process # 0 THEN ProcessEntity(process) ELSE NoneValue

\* The body of matcher.match(name): the fixed cascade file, process, user.
\* Returns the tests called, the value returned and the exception raised.
MatchBody(fs, ds, ps, us, name) ==
    LET path == match_file(fs, ds, name)
        process == match_process(ps, name)
    IN IF path # NoneValue
       THEN [calls |-> <<Call("match_file", 0, name)>>, result |-> path, exc |-> NoExc]
       ELSE IF process # 0
       THEN [calls |-> <<Call("match_file", 0, name), Call("match_process", 0, name)>>,
             result |-> ProcessEntity(process), exc |-> NoExc]
       ELSE IF user_exists(us, name)
       THEN [calls |-> <<Call("match_file", 0, name), Call("match_process", 0, name),
                         Call("user_exists", 0, name)>>,
             result |-> UserEntity(name), exc |-> NoExc]
       ELSE [calls |-> <<Call("match_file", 0, name), Call("match_process", 0, name),
                         Call("user_exists", 0, name)>>,
             result |-> NoneValue,
             exc |-> [type |-> "Exception", msg |-> <<"No match found for ", name>>]]

\* A call of matcher.match.  The function is declared `def match(name)`: a
\* call that passes a kind list as a second positional argument is rejected
\* by the interpreter with a TypeError before the body runs.
MatchCall(fs, ds, ps, us, name, kinds) ==
    IF kinds.given
    THEN [calls |-> <<>>, result |-> NoneValue,
          exc |-> [type |-> "TypeError",
                   msg |-> <<"match() takes 1 positional argument but 2 were given">>]]
    ELSE MatchBody(fs, ds, ps, us, name)

\* A kind list of mock kinds: the return value of each mock's match.
KindLists == SeqsUpTo({"None", "hit"}, MaxKinds)

Paths == {abspath(n) : n \in Names}
ProcTables == {ps \in SUBSET [pid : Pids, name : Names] :
                  \A p, q \in ps : p.pid = q.pid => p = q}

MatchIdle ==
    /\ mPc = "idle"
    /\ mQuery = <<>>
    /\ mKinds = NoKinds
    /\ calls = <<>>
    /\ result = NoneValue
    /\ exc = NoExc

MatchInit ==
    /\ files \in SUBSET Paths
    /\ dirs \in SUBSET (Paths \ files)
    /\ procs \in ProcTables
    /\ users \in SUBSET Names
    /\ MatchIdle

\* matcher.match(name)
Match(name) ==
    LET r == MatchCall(files, dirs, procs, users, name, NoKinds)
    IN /\ mPc' = "done"
       /\ mQuery' = name
       /\ mKinds' = NoKinds
       /\ calls' = r.calls
       /\ result' = r.result
       /\ exc' = r.exc
       /\ UNCHANGED <<files, dirs, procs, users>>
       /\ UNCHANGED previewVars
       /\ UNCHANGED entityVars
       /\ UNCHANGED fieldVars

\* matcher.match(name, kinds), as the tests call it
MatchWithKinds(name, kinds) ==
    LET r == MatchCall(files, dirs, procs, users, name, KindsArg(kinds))
    IN /\ mPc' = "done"
       /\ mQuery' = name
       /\ mKinds' = KindsArg(kinds)
       /\ calls' = r.calls
       /\ result' = r.result
       /\ exc' = r.exc
       /\ UNCHANGED <<files, dirs, procs, users>>
       /\ UNCHANGED previewVars
       /\ UNCHANGED entityVars
       /\ UNCHANGED fieldVars

(***************************************************************************)
(* The states of the components that a specification leaves alone          *)
(***************************************************************************)
\* No path has been handed to FileFactory.from_path.
NoAttrs == [is_symlink |-> FALSE, is_dir |-> FALSE, mime |-> <<>>, lexer |-> "none"]
FcIdle == fc = [pc |-> "idle", attrs |-> NoAttrs, kind |-> "none"]

\* Entity.args keeps its dataclass default None.
ArgsNone == [present |-> FALSE, has_no_preview |-> FALSE, no_preview |-> FALSE]
\* Entity.errors keeps its dataclass default None.
ErrorsNone == [none |-> TRUE, list |-> <<>>]

\* No entity is being rendered.
LayIdle ==
    lay = [pc |-> "idle", kind |-> "none", args |-> ArgsNone, width |-> 0,
           content |-> <<>>, mode |-> "none", exc |-> NoExc, param |-> "none",
           arg |-> 0, preview_max |-> 0]

\* The command has not been invoked.
CliIdle ==
    cli = [pc |-> "idle", argv |-> <<>>, debug |-> FALSE, width |-> 0,
           content |-> <<>>, queries |-> <<>>, displayed |-> <<>>,
           printed |-> <<>>, failure |-> NoExc, escaped |-> NoExc,
           ret |-> -1, exit |-> -1]

\* No Process entity exists.
PeIdle ==
    pe = [pc |-> "idle", proc |-> "running", ctime_cached |-> FALSE, i |-> 0,
          fields |-> <<>>, exc |-> "none"]

\* No User entity exists.
UeIdle ==
    ue = [pc |-> "idle", username |-> <<>>, shadow |-> "ok", errors |-> ErrorsNone,
          pwd_entry |-> FALSE, has_shadow |-> FALSE, lookups |-> <<>>, exc |-> NoExc]

EntitiesIdle == FcIdle /\ LayIdle /\ CliIdle /\ PeIdle /\ UeIdle

\* No File entity is being read.
FrIdle ==
    fr = [pc |-> "idle", kind |-> "none", uid_known |-> FALSE, version |-> 0,
          built |-> 0, reads |-> <<>>, stat_calls |-> 0]
\* No entity's sections are being produced.
GsIdle ==
    gs = [pc |-> "idle", kind |-> "none", headers |-> FALSE, opt1 |-> FALSE,
          opt2 |-> FALSE, sections |-> <<>>, exc |-> NoExc, tables |-> <<>>]
\* No Directory entity exists.
DrIdle ==
    dr = [pc |-> "idle", attrs |-> NoAttrs, items |-> <<>>, kind |-> "none",
          content |-> <<>>, hint |-> <<>>]
\* No FilePermissions value exists.
FpIdle == fp = [pc |-> "idle", mode |-> 0, bits |-> <<>>, str |-> <<>>, shown |-> <<>>]
\* No lineage walk is in progress.
LinIdle ==
    lin = [pc |-> "idle", ppid |-> <<>>, alive |-> {}, process |-> 0,
           ancestors |-> <<>>, current |-> 0, exc |-> "none", ret |-> <<>>]
\* find_process_by_pid has not been called.
RpIdle == rp = [pc |-> "idle", name |-> <<>>, pid |-> 0, result |-> 0, exc |-> "none"]
\* File.match has not been called.
FmIdle ==
    fm = [pc |-> "idle", fs |-> <<>>, name |-> <<>>, file |-> "None",
          match_file |-> "None", calls |-> <<>>, result |-> NoneValue]

FieldsIdle == FrIdle /\ GsIdle /\ DrIdle /\ FpIdle /\ LinIdle /\ RpIdle /\ FmIdle

PreviewIdle ==
    /\ pPc = "idle"
    /\ renderable = <<>>
    /\ max_height = 1
    /\ lines = <<>>
    /\ out = <<>>
    /\ pExc = "none"

MatcherInit == MatchInit /\ PreviewIdle /\ EntitiesIdle /\ FieldsIdle

MatcherNext ==
    \/ \E name \in Names : Match(name)
    \/ \E name \in Names, kinds \in KindLists : MatchWithKinds(name, kinds)

SpecMatcher == MatcherInit /\ [][MatcherNext]_vars

(***************************************************************************)
(* The preview truncator: what_cli/entities/preview.py                     *)
(***************************************************************************)
NL == "\n"

\* The characters of segment texts and the styles of segments.  A style
\* stands for the pair (style, control) of a rich Segment, which the code
\* always copies together.
Chars == {"a", NL}
Styles == {"S1", "S2"}

\* rich.segment.Segment(text, style)
Segment(text, style) == [text |-> text, style |-> style]

Texts == SeqsUpTo(Chars, MaxTextLen)
Segments == [text : Texts, style : Styles]
Streams == SeqsUpTo(Segments, MaxSegs)

\* str.split("\n"): the parts between the line breaks, one more than breaks.
RECURSIVE split(_)
split(text) ==
    IF \A i \in 1..Len(text) : text[i] # NL THEN <<text>>
    ELSE LET k == CHOOSE i \in 1..Len(text) :
                    text[i] = NL /\ \A j \in 1..(i - 1) : text[j] # NL
         IN <<SubSeq(text, 1, k - 1)>> \o split(SubSeq(text, k + 1, Len(text)))

\* AppendPart with the style of the split segment dropped.
AppendPart_Unstyled(line, part, style) ==
    IF part # <<>> THEN Append(line, Segment(part, "none")) ELSE line

\* current_line.append(Segment(part, style, control)) when the part is not empty
AppendPart(line, part, style) ==
    IF part # <<>> THEN Append(line, Segment(part, style)) ELSE line

\* The loop over the middle parts of a split segment, parts[i .. len - 2].
RECURSIVE MiddleParts(_, _, _, _)
MiddleParts(st, parts, i, style) ==
    IF i > Len(parts) - 1 THEN st
    ELSE MiddleParts([lines |-> Append(st.lines, st.current_line),
                      current_line |-> AppendPart(<<>>, parts[i], style)],
                     parts, i + 1, style)

\* One iteration of the loop over the segments.
GroupSegment(st, segment) ==
    IF segment.text # <<>> /\ NL \in Range(segment.text)
    THEN LET parts == split(segment.text)
             first == [lines |-> st.lines,
                       current_line |-> AppendPart(st.current_line, parts[1], segment.style)]
             mid == MiddleParts(first, parts, 2, segment.style)
         IN [lines |-> Append(mid.lines, mid.current_line),
             current_line |-> AppendPart(<<>>, parts[Len(parts)], segment.style)]
    ELSE [lines |-> st.lines, current_line |-> Append(st.current_line, segment)]

RECURSIVE GroupLoop(_, _)
GroupLoop(st, segments) ==
    IF segments = <<>> THEN st
    ELSE GroupLoop(GroupSegment(st, Head(segments)), Tail(segments))

\* "Group segments by line": the logical lines of a segment stream.
GroupByLine(segments) ==
    LET st == GroupLoop([lines |-> <<>>, current_line |-> <<>>], segments)
    IN IF st.current_line # <<>> THEN Append(st.lines, st.current_line) ELSE st.lines

\* The items a render yields: a segment, or the indicator table with its
\* ellipsis cell and its label cell f"+{remaining_lines} lines".
SegmentItem(segment) == [kind |-> "segment", text |-> segment.text, style |-> segment.style, count |-> 0]
NewLine == [kind |-> "segment", text |-> <<NL>>, style |-> "none", count |-> 0]
Indicator(remaining_lines) ==
    [kind |-> "indicator", text |-> <<"...", "+", " lines">>, style |-> "dim", count |-> remaining_lines]

\* An element of truncated_lines: a list of segments, or the indicator.
ListLine(line) == [list |-> TRUE, segments |-> line, item |-> NewLine]
SingleLine(item) == [list |-> FALSE, segments |-> <<>>, item |-> item]

\* lines[: max_height - 1]
SliceLines(ls, h) == SubSeq(ls, 1, Min(h - 1, Len(ls)))

\* RemainingLines counting from max_height instead of the kept lines.
RemainingLines_OffByOne(ls, truncated_lines) == Len(ls) - Len(truncated_lines) - 1

\* remaining_lines = len(lines) - len(truncated_lines)
RemainingLines(ls, truncated_lines) == Len(ls) - Len(truncated_lines)

\* MustTruncate allowing one line more than the budget.
MustTruncate_Late(ls, h) == Len(ls) > h + 1

\* MustTruncate truncating an input that fits exactly.
MustTruncate_Early(ls, h) == Len(ls) >= h

\* len(lines) > self.max_height
MustTruncate(ls, h) == Len(ls) > h

\* The segments of one line, as yielded items.
LineItems(line) ==
    IF line.list THEN [k \in 1..Len(line.segments) |-> SegmentItem(line.segments[k])]
    ELSE <<line.item>>

\* YieldLines with a line break after every line, the last included.
RECURSIVE YieldLines_TrailingBreak(_, _)
YieldLines_TrailingBreak(ls, i) ==
    IF i > Len(ls) THEN <<>>
    ELSE LineItems(ls[i]) \o <<NewLine>> \o YieldLines_TrailingBreak(ls, i + 1)

\* The yield loop: every line, and a line break after all but the last.
RECURSIVE YieldLines(_, _)
YieldLines(ls, i) ==
    IF i > Len(ls) THEN <<>>
    ELSE LineItems(ls[i]) \o (IF i < Len(ls) THEN <<NewLine>> ELSE <<>>)
         \o YieldLines(ls, i + 1)

\* Preview.__rich_console__ from "Truncate to max_height" on: the items
\* yielded and the exception raised.  truncated_lines[-1] = indicator raises
\* IndexError on an empty list, before the generator yields anything.
Truncate(ls, h) ==
    IF MustTruncate(ls, h)
    THEN LET truncated_lines == SliceLines(ls, h)
             remaining_lines == RemainingLines(ls, truncated_lines)
             indicator == Indicator(remaining_lines)
         IN IF truncated_lines = <<>>
            THEN [out |-> <<>>, exc |-> "IndexError"]
            ELSE [out |-> YieldLines(
                            [k \in 1..Len(truncated_lines) |->
                               IF k = Len(truncated_lines) THEN SingleLine(indicator)
                               ELSE ListLine(truncated_lines[k])], 1),
                  exc |-> "none"]
    ELSE [out |-> YieldLines([k \in 1..Len(ls) |-> ListLine(ls[k])], 1),
          exc |-> "none"]

\* Preview(renderable, max_height) has been constructed.
PreviewInit ==
    /\ pPc = "constructed"
    /\ renderable \in Streams
    /\ max_height \in 1..MaxHeight
    /\ lines = <<>>
    /\ out = <<>>
    /\ pExc = "none"

\* Preview.__rich_console__
RichConsole ==
    /\ pPc = "constructed"
    /\ LET ls == GroupByLine(renderable)
           r == Truncate(ls, max_height)
       IN /\ lines' = ls
          /\ out' = r.out
          /\ pExc' = r.exc
    /\ pPc' = "rendered"
    /\ UNCHANGED <<renderable, max_height>>
    /\ UNCHANGED matchVars
    /\ UNCHANGED entityVars
    /\ UNCHANGED fieldVars

TruncatorInit ==
    /\ files = {} /\ dirs = {} /\ procs = {} /\ users = {}
    /\ MatchIdle
    /\ PreviewInit
    /\ EntitiesIdle
    /\ FieldsIdle

TruncatorNext == RichConsole

SpecTruncator == TruncatorInit /\ [][TruncatorNext]_vars

(***************************************************************************)
(* Claims about the resolver                                               *)
(***************************************************************************)
\* The position of the first kind of a kind list whose test succeeds, or 0.
FirstHit(kinds) ==
    LET hits == {i \in 1..Len(kinds) : kinds[i] # "None"}
    IN IF hits = {} THEN 0 ELSE CHOOSE i \in hits : \A j \in hits : i <= j

\* The functions that are the classification test of a kind: the class
\* method of the entity and the module-level function of matcher.py.
TestsOfKind(kind) ==
    CASE kind = "File" -> {"File.match", "match_file"}
      [] kind = "Process" -> {"Process.match", "match_process"}
      [] kind = "User" -> {"User.match", "user_exists"}

\* The number of calls of the test of a kind with argument arg in the call log.
CallCount(kind, arg) ==
    Cardinality({i \in 1..Len(calls) : calls[i].fn \in TestsOfKind(kind) /\ calls[i].arg = arg})

\* The error of a failed resolution: Exception(f"No match found for {name}").
NoMatchFound(name) == [type |-> "Exception", msg |-> <<"No match found for ", name>>]

\* C1: match(query, kinds) returns the value of the first kind in list order
\* whose test succeeds; every kind before it and that kind itself is called
\* exactly once with the unmodified query, and no kind after it is called.
C1_FirstKindWins ==
    (mPc = "done" /\ mKinds.given /\ FirstHit(mKinds.list) # 0) =>
        /\ exc = NoExc
        /\ result = MockValue(FirstHit(mKinds.list))
        /\ calls = [i \in 1..FirstHit(mKinds.list) |-> Call("kind.match", i, mQuery)]

\* C2: when no kind of the list (the empty list included) matches, every
\* kind's test is called exactly once and match fails with the message
\* 'No match found for <query>'; with the default kinds a numeric string
\* that is no live pid, no file name and no user name fails that way.
C2_NoMatchRaises ==
    /\ (mPc = "done" /\ mKinds.given /\ FirstHit(mKinds.list) = 0) =>
            /\ exc = NoMatchFound(mQuery)
            /\ calls = [i \in 1..Len(mKinds.list) |-> Call("kind.match", i, mQuery)]
    /\ (/\ mPc = "done" /\ ~mKinds.given /\ is_int(mQuery)
        /\ ~(\E p \in procs : p.pid = int(mQuery) \/ p.name = mQuery)
        /\ abspath(mQuery) \notin files \cup dirs
        /\ mQuery \notin users) =>
            exc = NoMatchFound(mQuery)

\* C3: without a kind list the kinds tried are File, Process, User in that
\* order: when File.match fails and Process.match succeeds, the File test and
\* the Process test are each called exactly once with the query, the User
\* test is not called, and the value of Process.match is returned.
C3_DefaultKindsOrder ==
    (/\ mPc = "done" /\ ~mKinds.given
     /\ FileMatch(files, dirs, mQuery) = NoneValue
     /\ ProcessMatch(procs, mQuery) # NoneValue) =>
        /\ exc = NoExc
        /\ result = ProcessMatch(procs, mQuery)
        /\ CallCount("File", mQuery) = 1
        /\ CallCount("Process", mQuery) = 1
        /\ CallCount("User", mQuery) = 0

(***************************************************************************)
(* Claims about the preview truncator                                      *)
(***************************************************************************)
IsBreak(item) == item.kind = "segment" /\ item.text = <<NL>>
IsIndicator(item) == item.kind = "indicator"

\* The number of lines of a yielded stream: lines are separated by breaks.
OutLineCount(items) ==
    IF items = <<>> THEN 0
    ELSE 1 + Cardinality({k \in 1..Len(items) : IsBreak(items[k])})

HasIndicator(items) == \E k \in 1..Len(items) : IsIndicator(items[k])

\* The count shown by the indicator of a stream that has one.
IndicatorCount(items) == items[CHOOSE k \in 1..Len(items) : IsIndicator(items[k])].count

\* A line of segments as the items that show it.
ItemsOfLine(line) == [k \in 1..Len(line) |-> SegmentItem(line[k])]

\* Lines (each a sequence of items) separated by breaks, none after the last.
RECURSIVE Joined(_)
Joined(ls) ==
    IF ls = <<>> THEN <<>>
    ELSE IF Len(ls) = 1 THEN ls[1]
    ELSE ls[1] \o <<NewLine>> \o Joined(Tail(ls))

\* C4: for max_height >= 1 the truncator yields at most max_height lines.
C4_NeverExceedsBudget ==
    pPc = "rendered" => (OutLineCount(out) >= 0 /\ OutLineCount(out) <= max_height)

C4_Witness ==
    /\ pPc = "rendered" /\ pExc = "none"
    /\ Len(lines) > max_height
    /\ HasIndicator(out)
    /\ OutLineCount(out) >= 2

\* C5: when the reconstructed line count is at most max_height the output
\* is the reconstructed lines, each with its segments' text and style
\* unchanged, separated by line breaks, with no indicator; an empty
\* renderable yields nothing.
C5_ShortInputVerbatim ==
    (pPc = "rendered" /\ Len(lines) <= max_height) =>
        /\ pExc = "none"
        /\ ~HasIndicator(out)
        /\ out = Joined([k \in 1..Len(lines) |-> ItemsOfLine(lines[k])])
        /\ (Len(lines) >= 1 /\ lines # << <<>> >>) => OutLineCount(out) = Len(lines)
        /\ renderable = <<>> => (lines = <<>> /\ out = <<>>)

C5_Witness ==
    /\ pPc = "rendered"
    /\ Len(lines) = max_height
    /\ Len(lines) >= 2
    /\ OutLineCount(out) = Len(lines)
    /\ \E k \in 1..Len(out) : out[k].kind = "segment" /\ out[k].style = "S2"

\* C6: when the reconstructed line count exceeds max_height the output has
\* exactly max_height lines: the first max_height - 1 reconstructed lines
\* unchanged and in order, then the indicator as the last line.
C6_TruncatedHasMaxHeightLines ==
    (pPc = "rendered" /\ Len(lines) > max_height) =>
        /\ pExc = "none"
        /\ OutLineCount(out) = max_height
        /\ out = Joined([k \in 1..max_height |->
                           IF k < max_height THEN ItemsOfLine(lines[k])
                           ELSE <<Indicator(Len(lines) - (max_height - 1))>>])

\* C7: the count of an emitted indicator is total_lines - (max_height - 1).
C7_IndicatorCount ==
    (pPc = "rendered" /\ HasIndicator(out)) =>
        IndicatorCount(out) = Len(lines) - (max_height - 1)

C7_Witness ==
    /\ pPc = "rendered"
    /\ HasIndicator(out)
    /\ max_height >= 3
    /\ Len(lines) >= max_height + 2

\* C8: the count of an emitted indicator is the number of reconstructed
\* lines that are not among the kept lines of the output.
C8_IndicatorCountsOmitted ==
    (pPc = "rendered" /\ HasIndicator(out)) =>
        IndicatorCount(out) = Len(lines) - (OutLineCount(out) - 1)

\* C9: with max_height = 1 and two or more lines the truncator completes
\* without error and yields one line, the indicator, counting every line.
C9_MaxHeightOne ==
    (pPc = "rendered" /\ max_height = 1 /\ Len(lines) >= 2) =>
        /\ pExc = "none"
        /\ out = <<Indicator(Len(lines))>>

\* A segment stream as its characters, each with the style it is shown in.
RECURSIVE StyledChars(_)
StyledChars(segments) ==
    IF segments = <<>> THEN <<>>
    ELSE [k \in 1..Len(Head(segments).text) |->
            [ch |-> Head(segments).text[k], style |-> Head(segments).style]]
         \o StyledChars(Tail(segments))

\* The runs of styled characters between the line breaks of a sequence of
\* styled characters, found by one scan: one run more than there are breaks.
RECURSIVE BreakRuns(_, _)
BreakRuns(chars, run) ==
    IF chars = <<>> THEN <<run>>
    ELSE IF Head(chars).ch = NL THEN <<run>> \o BreakRuns(Tail(chars), <<>>)
    ELSE BreakRuns(Tail(chars), Append(run, Head(chars)))

\* The non-empty break-delimited pieces of a text, each with the given
\* style, found by one scan of the characters.
RECURSIVE StyledPieces(_, _, _)
StyledPieces(text, run, style) ==
    LET piece == IF run # <<>> THEN <<Segment(run, style)>> ELSE <<>>
    IN IF text = <<>> THEN piece
       ELSE IF Head(text) = NL THEN piece \o StyledPieces(Tail(text), <<>>, style)
       ELSE StyledPieces(Tail(text), Append(run, Head(text)), style)

\* The segments expected on the lines, in order: a segment with a break is
\* replaced by its non-empty pieces in its own style, any other is kept whole.
RECURSIVE ExpectedSegments(_)
ExpectedSegments(segments) ==
    IF segments = <<>> THEN <<>>
    ELSE (IF NL \in Range(Head(segments).text)
          THEN StyledPieces(Head(segments).text, <<>>, Head(segments).style)
          ELSE <<Head(segments)>>)
         \o ExpectedSegments(Tail(segments))

RECURSIVE Concat(_)
Concat(ls) == IF ls = <<>> THEN <<>> ELSE Head(ls) \o Concat(Tail(ls))

\* C10: line reconstruction preserves styling.  The segments on the lines
\* are, in order, the break-free input segments whole and the non-empty
\* break-delimited pieces of the others in their segment's style; no segment
\* on a line holds a break; and the styled text of line i is the i-th
\* break-delimited run of the input's styled text (only an empty run after
\* the last break has no line).
C10_ReconstructionPreservesStyle ==
    pPc = "rendered" =>
        LET runs == BreakRuns(StyledChars(renderable), <<>>)
        IN /\ Concat(lines) = ExpectedSegments(renderable)
           /\ \A i \in 1..Len(lines) : \A k \in 1..Len(lines[i]) :
                NL \notin Range(lines[i][k].text)
           /\ Len(lines) \in {Len(runs) - 1, Len(runs)}
           /\ \A i \in 1..Len(lines) : StyledChars(lines[i]) = runs[i]
           /\ Len(lines) = Len(runs) - 1 => runs[Len(runs)] = <<>>

\* 'a\na' in style S2 after a break-free segment in style S1: 'a'(S1) and
\* 'a'(S2) share the first line and 'a'(S2) is alone on the second.
C10_Witness ==
    /\ pPc = "rendered"
    /\ renderable = <<Segment(<<"a">>, "S1"), Segment(<<"a", NL, "a">>, "S2")>>
    /\ lines = << <<Segment(<<"a">>, "S1"), Segment(<<"a">>, "S2")>>,
                  <<Segment(<<"a">>, "S2")>> >>

\* The number of line breaks of a yielded stream.
BreakCount(items) == Cardinality({k \in 1..Len(items) : IsBreak(items[k])})

\* The lines a completed render emits, each as its items: every
\* reconstructed line, or the kept lines and the indicator.
EmittedLines ==
    IF HasIndicator(out)
    THEN [k \in 1..(max_height - 1) |->
            IF k < max_height - 1 THEN ItemsOfLine(lines[k])
            ELSE <<Indicator(IndicatorCount(out))>>]
    ELSE [k \in 1..Len(lines) |-> ItemsOfLine(lines[k])]

\* C11: in both branches consecutive emitted lines are separated by exactly
\* one line break and no line break follows the last line.
C11_OneBreakBetweenLines ==
    (pPc = "rendered" /\ pExc = "none") =>
        /\ out = Joined(EmittedLines)
        /\ Len(EmittedLines) >= 1 => BreakCount(out) = Len(EmittedLines) - 1

C11_Witness ==
    /\ pPc = "rendered" /\ pExc = "none"
    /\ max_height = 4
    /\ HasIndicator(out)
    /\ IsIndicator(out[Len(out)])
    /\ BreakCount(out) = 2

(***************************************************************************)
(* File classification: FileFactory of what_cli/entities/file.py           *)
(***************************************************************************)
\* A MIME type as the tokens of its string: major type, "/", subtype.
Mime(major, minor) == <<major, "/", minor>>

\* The answers of magic.from_file(path, mime=True) in the model.
Mimes == {Mime("video", "mp4"), Mime("audio", "mpeg"), Mime("image", "png"),
          Mime("text", "plain"), Mime("text", "x-python"), Mime("text", "html"),
          Mime("inode", "directory"), Mime("application", "octet-stream")}

\* The answers of CodeFile.get_language: a lexer name, or "none" when
\* read_text or guess_lexer raises.
Lexers == {"none", "Python", "C"}

\* What the collaborators report for a path.
FileAttrs == [is_symlink : BOOLEAN, is_dir : BOOLEAN, mime : Mimes, lexer : Lexers]

\* str.startswith on the tokens of a string
startswith(str, prefix) == Len(str) >= Len(prefix) /\ SubSeq(str, 1, Len(prefix)) = prefix

is_video_file(mime) == startswith(mime, <<"video", "/">>)
is_audio_file(mime) == startswith(mime, <<"audio", "/">>)
is_image_file(mime) == startswith(mime, <<"image", "/">>)
is_plain_text_file(mime) == mime = Mime("text", "plain")

\* CodeFile.match: bool(get_language(path)), False on any exception.
CodeFileMatch(attrs) == attrs.lexer # "none"

\* match_special_file with the directory test ahead of the symlink test.
match_special_file_DirFirst(attrs) ==
    IF attrs.is_dir THEN "Directory"
    ELSE IF attrs.is_symlink THEN "SymlinkFile"
    ELSE "None"

\* FileFactory.match_special_file: None when neither test holds.
match_special_file(attrs) ==
    IF attrs.is_symlink THEN "SymlinkFile"
    ELSE IF attrs.is_dir THEN "Directory"
    ELSE "None"

\* FileFactory.match_regular_file
match_regular_file(attrs) ==
    IF is_video_file(attrs.mime) THEN "VideoFile"
    ELSE IF is_audio_file(attrs.mime) THEN "AudioFile"
    ELSE IF is_image_file(attrs.mime) THEN "ImageFile"
    ELSE IF is_plain_text_file(attrs.mime) THEN "TextFile"
    ELSE IF CodeFileMatch(attrs) THEN "CodeFile"
    ELSE "RegularFile"

\* FileFactory.from_path
from_path(attrs) ==
    LET file == match_special_file(attrs)
    IN IF file # "None" THEN file ELSE match_regular_file(attrs)

\* A path with its attributes is about to be classified.
ClassifyInit ==
    /\ fc \in [pc : {"path"}, attrs : FileAttrs, kind : {"none"}]
    /\ files = {} /\ dirs = {} /\ procs = {} /\ users = {}
    /\ MatchIdle /\ PreviewIdle
    /\ LayIdle /\ CliIdle /\ PeIdle /\ UeIdle
    /\ FieldsIdle

\* FileFactory.from_path(file_path)
FromPath ==
    /\ fc.pc = "path"
    /\ fc' = [fc EXCEPT !.pc = "classified", !.kind = from_path(fc.attrs)]
    /\ UNCHANGED <<matchVars, previewVars, lay, cli, pe, ue>>
    /\ UNCHANGED fieldVars

ClassifyNext == FromPath

SpecClassify == ClassifyInit /\ [][ClassifyNext]_vars

\* The predicates of the claimed ladder, most specific first, each with the
\* subtype it selects.
Ladder(attrs) ==
    << <<attrs.is_symlink, "SymlinkFile">>,
       <<attrs.is_dir, "Directory">>,
       <<Len(attrs.mime) >= 2 /\ attrs.mime[1] = "video" /\ attrs.mime[2] = "/", "VideoFile">>,
       <<Len(attrs.mime) >= 2 /\ attrs.mime[1] = "audio" /\ attrs.mime[2] = "/", "AudioFile">>,
       <<Len(attrs.mime) >= 2 /\ attrs.mime[1] = "image" /\ attrs.mime[2] = "/", "ImageFile">>,
       <<attrs.mime = <<"text", "/", "plain">>, "TextFile">>,
       <<attrs.lexer # "none", "CodeFile">>,
       <<TRUE, "RegularFile">> >>

FileSubtypes == {"SymlinkFile", "Directory", "VideoFile", "AudioFile", "ImageFile",
                 "TextFile", "CodeFile", "RegularFile"}

\* C12: classification picks exactly one subtype, that of the earliest
\* predicate of the ladder symlink, directory, video, audio, image,
\* text/plain, lexer-detected code, generic regular file that holds.
C12_LadderOrder ==
    fc.pc = "classified" =>
        LET ladder == Ladder(fc.attrs)
            first == CHOOSE i \in 1..Len(ladder) :
                        ladder[i][1] /\ \A j \in 1..(i - 1) : ~ladder[j][1]
        IN /\ fc.kind \in FileSubtypes
           /\ fc.kind = ladder[first][2]

\* A symbolic link to a directory is classified as a symlink.
C12_Witness ==
    /\ fc.pc = "classified"
    /\ fc.attrs.is_symlink /\ fc.attrs.is_dir
    /\ fc.kind = "SymlinkFile"

(***************************************************************************)
(* The layout of a render: Entity.__rich_console__ of entities/entity.py   *)
(***************************************************************************)
MIN_CONTENT_WIDTH == 60
MIN_PREVIEW_WIDTH == 40

\* The largest number of lines of a content block.
MaxContentLines == 3

\* Console widths on both sides of the threshold.
Widths == (MIN_CONTENT_WIDTH + MIN_PREVIEW_WIDTH - 1)..(MIN_CONTENT_WIDTH + MIN_PREVIEW_WIDTH + 2)

\* The namespace handle_args of what_cli/what.py returns: name, headers and
\* debug, and no no_preview attribute.
ArgsCli == [present |-> TRUE, has_no_preview |-> FALSE, no_preview |-> FALSE]
\* A namespace that carries the attribute __rich_console__ reads.
ArgsPreview(no_preview) == [present |-> TRUE, has_no_preview |-> TRUE, no_preview |-> no_preview]
ArgsValues == {ArgsNone, ArgsCli, ArgsPreview(TRUE), ArgsPreview(FALSE)}

\* The concrete entity classes.
EntityClasses == {"SymlinkFile", "Directory", "VideoFile", "AudioFile", "ImageFile",
                  "TextFile", "CodeFile", "RegularFile", "Process", "User"}

\* A content block of n lines as the segments a render of it produces; the
\* last line ends with a line break or not.
ContentBlock(n, terminated) ==
    [k \in 1..n |-> Segment(IF k < n \/ terminated THEN <<"a", NL>> ELSE <<"a">>, "S1")]
Contents == {ContentBlock(n, t) : n \in 1..MaxContentLines, t \in BOOLEAN}

\* The class whose get_preview a lookup on the entity class finds.
get_preview_class(kind) ==
    CASE kind = "ImageFile" -> "ImageFile"
      [] kind \in {"TextFile", "CodeFile"} -> "TextFile"
      [] kind = "Process" -> "Process"
      [] OTHER -> "Entity"

\* The parameter of that get_preview that a positional argument binds to.
get_preview_param(cls) ==
    CASE cls = "ImageFile" -> "cols"
      [] cls = "TextFile" -> "max_lines"
      [] cls = "Process" -> "none"
      [] OTHER -> "max_height"

\* Entity.provides_preview: the class overrides get_preview.
provides_preview(kind) == get_preview_class(kind) # "Entity"

\* str.count("\n")
CountNL(text) == Cardinality({k \in 1..Len(text) : text[k] = NL})

RECURSIVE SumNL(_)
SumNL(segments) ==
    IF segments = <<>> THEN 0
    ELSE CountNL(Head(segments).text) + SumNL(Tail(segments))

\* Entity._measure_height: one plus the line breaks of the rendered segments.
measure_height(content) == 1 + SumNL(content)

\* The outcome of a render: the layout selected, the exception raised, the
\* parameter and value get_preview was called with and Preview's max_height.
Layout(mode, e, param, arg, preview_max) ==
    [mode |-> mode, exc |-> e, param |-> param, arg |-> arg, preview_max |-> preview_max]

\* Entity.__rich_console__(console, options)
rich_console(kind, args, width, content) ==
    LET console_width == width
        room_for_preview == console_width > MIN_CONTENT_WIDTH + MIN_PREVIEW_WIDTH
    IN IF ~args.present
       THEN Layout("none", [type |-> "AttributeError",
                            msg |-> <<"'NoneType' object has no attribute 'no_preview'">>],
                   "none", 0, 0)
       ELSE IF ~args.has_no_preview
       THEN Layout("none", [type |-> "AttributeError",
                            msg |-> <<"'Namespace' object has no attribute 'no_preview'">>],
                   "none", 0, 0)
       ELSE LET preview_on == ~args.no_preview
                preview_available == preview_on /\ room_for_preview /\ provides_preview(kind)
                content_height == measure_height(content)
                param == get_preview_param(get_preview_class(kind))
            IN IF preview_available
               THEN IF param = "none"
                    THEN Layout("side_by_side",
                                [type |-> "TypeError",
                                 msg |-> <<"get_preview() takes 1 positional argument but 2 were given">>],
                                "none", 0, 0)
                    ELSE Layout("side_by_side", NoExc, param, content_height, content_height)
               ELSE Layout("content_only", NoExc, "none", 0, 0)

\* An entity of some class is about to be printed on a console.
LayoutInit ==
    /\ lay \in [pc : {"built"}, kind : EntityClasses, args : ArgsValues, width : Widths,
                content : Contents, mode : {"none"}, exc : {NoExc}, param : {"none"},
                arg : {0}, preview_max : {0}]
    /\ files = {} /\ dirs = {} /\ procs = {} /\ users = {}
    /\ MatchIdle /\ PreviewIdle
    /\ FcIdle /\ CliIdle /\ PeIdle /\ UeIdle
    /\ FieldsIdle

\* console.print(entity)
EntityRichConsole ==
    /\ lay.pc = "built"
    /\ LET r == rich_console(lay.kind, lay.args, lay.width, lay.content)
       IN lay' = [lay EXCEPT !.pc = "rendered", !.mode = r.mode, !.exc = r.exc,
                             !.param = r.param, !.arg = r.arg,
                             !.preview_max = r.preview_max]
    /\ UNCHANGED <<matchVars, previewVars, fc, cli, pe, ue>>
    /\ UNCHANGED fieldVars

LayoutNext == EntityRichConsole

SpecLayout == LayoutInit /\ [][LayoutNext]_vars

\* The entity kinds that have a preview: image, text/code and process.
PreviewKinds == {"ImageFile", "TextFile", "CodeFile", "Process"}

\* Preview display is suppressed only by a flag that was given.
Suppressed(args) == args.present /\ args.has_no_preview /\ args.no_preview

\* C14: side-by-side layout is selected exactly when the width exceeds
\* MIN_CONTENT_WIDTH + MIN_PREVIEW_WIDTH, the kind provides a preview and
\* the preview is not suppressed by the flag; in every other case the
\* content alone is rendered, without error.
C14_SideBySideIffRoomAndPreview ==
    lay.pc = "rendered" =>
        IF /\ lay.width > MIN_CONTENT_WIDTH + MIN_PREVIEW_WIDTH
           /\ lay.kind \in PreviewKinds
           /\ ~Suppressed(lay.args)
        THEN lay.mode = "side_by_side"
        ELSE lay.mode = "content_only" /\ lay.exc = NoExc

\* The number of lines of a content block: its line breaks, and one more
\* for text after the last line break.
ContentLineCount(content) ==
    LET chars == Concat([k \in 1..Len(content) |-> content[k].text])
    IN CountNL(chars) + (IF chars # <<>> /\ chars[Len(chars)] # NL THEN 1 ELSE 0)

\* C15: when side-by-side layout is selected the preview is requested with,
\* and truncated to, a max_height equal to the number of lines of the
\* content block, for every kind that provides a preview.
C15_PreviewHeightIsContentHeight ==
    (lay.pc = "rendered" /\ lay.mode = "side_by_side") =>
        /\ lay.exc = NoExc
        /\ lay.param \in {"max_height", "max_lines"}
        /\ lay.arg = ContentLineCount(lay.content)
        /\ lay.preview_max = ContentLineCount(lay.content)

(***************************************************************************)
(* The command: what_cli/what.py and what_cli/__main__.py                  *)
(***************************************************************************)
\* The largest number of name arguments of an invocation.
MaxArgs == 2

\* parser.add_argument("name", nargs="+"): one name or more.
ArgLists == SeqsUpTo(Names, MaxArgs) \ {<<>>}

\* The class of the entity matcher.match returned.
KindOfEntity(entity) == IF entity.type = "File" THEN "RegularFile" ELSE entity.type

\* One thing written to the terminal.
Printed(kind, style, text) == [kind |-> kind, style |-> style, text |-> text]

\* The outcome of run: the names handed to matcher.match, the names whose
\* entity was handed to display, what was printed, the exception the try
\* block raised, the exception that left run and the value returned.
RunOutcome(queries, displayed, printed, failure, escaped, ret) ==
    [queries |-> queries, displayed |-> displayed, printed |-> printed,
     failure |-> failure, escaped |-> escaped, ret |-> ret]

\* what.run(): the first name is matched and displayed.  The handler calls
\* Formatter.format, a name what.py never binds, so a failure of the try
\* block ends in a NameError that leaves run.
run(fs, ds, ps, us, argv, debug, width, content) ==
    LET name == argv[1]
        entity == MatchBody(fs, ds, ps, us, name)
        shown == rich_console(KindOfEntity(entity.result), ArgsNone, width, content)
    IN IF entity.exc # NoExc
       THEN RunOutcome(<<name>>, <<>>, <<>>, entity.exc,
                       [type |-> "NameError", msg |-> <<"name 'Formatter' is not defined">>], -1)
       ELSE IF shown.exc # NoExc
       THEN RunOutcome(<<name>>, <<name>>, <<>>, shown.exc,
                       [type |-> "NameError", msg |-> <<"name 'Formatter' is not defined">>], -1)
       ELSE RunOutcome(<<name>>, <<name>>, <<Printed("panel", "none", name)>>,
                       NoExc, NoExc, 0)

\* __main__.main(): the value of run, or 1 after printing an exception that
\* left run.
main(fs, ds, ps, us, argv, debug, width, content) ==
    LET r == run(fs, ds, ps, us, argv, debug, width, content)
    IN IF r.escaped = NoExc
       THEN [outcome |-> r, exit |-> r.ret]
       ELSE [outcome |-> [r EXCEPT !.printed =
                             Append(r.printed,
                                    Printed("line", "none", <<"Error: ">> \o r.escaped.msg))],
             exit |-> 1]

\* The command line has been typed; names may or may not exist.
CliInit ==
    /\ files \in SUBSET Paths
    /\ dirs = {}
    /\ procs \in ProcTables
    /\ users \in SUBSET Names
    /\ cli \in [pc : {"invoked"}, argv : ArgLists, debug : BOOLEAN, width : Widths,
                content : {ContentBlock(1, TRUE)}, queries : {<<>>}, displayed : {<<>>},
                printed : {<<>>}, failure : {NoExc}, escaped : {NoExc},
                ret : {-1}, exit : {-1}]
    /\ MatchIdle /\ PreviewIdle
    /\ FcIdle /\ LayIdle /\ PeIdle /\ UeIdle
    /\ FieldsIdle

\* sys.exit(main())
Main ==
    /\ cli.pc = "invoked"
    /\ LET r == main(files, dirs, procs, users, cli.argv, cli.debug, cli.width, cli.content)
       IN cli' = [cli EXCEPT !.pc = "exit",
                             !.queries = r.outcome.queries,
                             !.displayed = r.outcome.displayed,
                             !.printed = r.outcome.printed,
                             !.failure = r.outcome.failure,
                             !.escaped = r.outcome.escaped,
                             !.ret = r.outcome.ret,
                             !.exit = r.exit]
    /\ UNCHANGED <<matchVars, previewVars, fc, lay, pe, ue>>
    /\ UNCHANGED fieldVars

CliNext == Main

SpecCli == CliInit /\ [][CliNext]_vars

\* C16: every name argument is resolved and rendered, in argument order; a
\* failing argument does not keep the later ones from being processed.
C16_EveryArgumentProcessed ==
    cli.pc = "exit" => cli.queries = cli.argv

\* The name resolves to an entity in the current world.
Resolves(name) == MatchBody(files, dirs, procs, users, name).exc = NoExc

C18_RunCatchesFailure ==
    (cli.pc = "exit" /\ cli.failure # NoExc) =>
        /\ cli.escaped = NoExc
        /\ cli.ret = 1
        /\ \E k \in 1..Len(cli.printed) :
               /\ cli.printed[k].kind = "line"
               /\ cli.printed[k].style = "red"
               /\ cli.printed[k].text = cli.failure.msg
        /\ (\E k \in 1..Len(cli.printed) : cli.printed[k].kind = "traceback") <=> cli.debug

(***************************************************************************)
(* The Process entity: what_cli/entities/process.py                        *)
(***************************************************************************)
\* The attributes get_sections reads, in the order it reads them.
GetSectionsReads ==
    <<"name", "pid", "status", "thread_count", "cpu", "nice", "memory", "io_stats",
      "started", "command", "user">>

\* The exception psutil raises for a call on a process in that state.
PsutilError(proc) == IF proc = "gone" THEN "NoSuchProcess" ELSE "AccessDenied"

\* One attribute read.  pid is a stored attribute; thread_count and io_stats
\* catch NoSuchProcess and AccessDenied and return zeros; every other
\* property calls psutil unguarded.  psutil may answer create_time from a
\* value it cached when the handle was made.
ReadProperty(attr, proc, ctime_cached) ==
    CASE attr = "pid" -> [value |-> "value", exc |-> "none"]
      [] attr # "pid" /\ proc = "running" -> [value |-> "value", exc |-> "none"]
      [] attr \in {"thread_count", "io_stats"} /\ proc # "running" ->
            [value |-> "zero", exc |-> "none"]
      [] attr = "started" /\ proc # "running" /\ ctime_cached ->
            [value |-> "value", exc |-> "none"]
      [] OTHER -> [value |-> "none", exc |-> PsutilError(proc)]

\* A Process entity wraps a running process.
ProcessInit ==
    /\ pe \in [pc : {"constructed"}, proc : {"running"}, ctime_cached : BOOLEAN,
               i : {1}, fields : {<<>>}, exc : {"none"}]
    /\ files = {} /\ dirs = {} /\ procs = {} /\ users = {}
    /\ MatchIdle /\ PreviewIdle
    /\ FcIdle /\ LayIdle /\ CliIdle /\ UeIdle
    /\ FieldsIdle

\* The next attribute read of Process.get_sections.
GetSectionsRead ==
    /\ pe.pc \in {"constructed", "reading"}
    /\ LET attr == GetSectionsReads[pe.i]
           r == ReadProperty(attr, pe.proc, pe.ctime_cached)
       IN IF r.exc # "none"
          THEN pe' = [pe EXCEPT !.pc = "raised", !.exc = r.exc]
          ELSE pe' = [pe EXCEPT
                        !.pc = IF pe.i = Len(GetSectionsReads) THEN "done" ELSE "reading",
                        !.i = pe.i + 1,
                        !.fields = Append(pe.fields,
                                          [attr |-> attr, value |-> r.value, proc |-> pe.proc])]
    /\ UNCHANGED <<matchVars, previewVars, fc, lay, cli, ue>>
    /\ UNCHANGED fieldVars

\* The wrapped process exits.
ProcessExits ==
    /\ pe.pc \in {"constructed", "reading"}
    /\ pe.proc \in {"running", "denied"}
    /\ pe' = [pe EXCEPT !.proc = "gone"]
    /\ UNCHANGED <<matchVars, previewVars, fc, lay, cli, ue>>
    /\ UNCHANGED fieldVars

\* Access to the wrapped process is withdrawn.
AccessDenied ==
    /\ pe.pc \in {"constructed", "reading"}
    /\ pe.proc = "running"
    /\ pe' = [pe EXCEPT !.proc = "denied"]
    /\ UNCHANGED <<matchVars, previewVars, fc, lay, cli, ue>>
    /\ UNCHANGED fieldVars

ProcessNext == GetSectionsRead \/ ProcessExits \/ AccessDenied

SpecProcess == ProcessInit /\ [][ProcessNext]_vars

\* C19: once the wrapped process has exited or access to it is denied,
\* every derived attribute get_sections reads yields a zero/empty value and
\* get_sections does not raise.
C19_ReadsSurviveExit ==
    /\ pe.pc # "raised"
    /\ \A k \in 1..Len(pe.fields) :
          (pe.fields[k].proc # "running" /\ pe.fields[k].attr # "pid")
              => pe.fields[k].value = "zero"

(***************************************************************************)
(* The User entity: what_cli/entities/user.py                              *)
(***************************************************************************)
UserNames == {<<"a">>, <<"b">>, <<"c">>}

\* Entity.errors passed as a list.
ErrorsList(list) == [none |-> FALSE, list |-> list]

\* The answers of spwd.getspnam: an entry, KeyError or PermissionError.
ShadowAnswers == {"ok", "KeyError", "PermissionError"}

\* The state User.__post_init__ leaves behind.
PostInitOutcome(errors, pwd_entry, has_shadow, lookups, e) ==
    [errors |-> errors, pwd_entry |-> pwd_entry, has_shadow |-> has_shadow,
     lookups |-> lookups, exc |-> e]

\* User.__post_init__: on KeyError from pwd.getpwnam the message is appended
\* to self.errors, which is None unless the caller passed a list.
post_init(us, shadow, username, errors) ==
    IF username \notin us
    THEN IF errors.none
         THEN PostInitOutcome(errors, FALSE, FALSE, <<"getpwnam">>,
                              [type |-> "AttributeError",
                               msg |-> <<"'NoneType' object has no attribute 'append'">>])
         ELSE PostInitOutcome(ErrorsList(Append(errors.list,
                                                <<"User '", username, "' not found">>)),
                              FALSE, FALSE, <<"getpwnam">>, NoExc)
    ELSE PostInitOutcome(errors, TRUE, shadow = "ok",
                         <<"getpwnam", "getspnam", "process_iter", "users">>, NoExc)

\* User(username=...) is about to be constructed, with or without errors=[].
UserInit ==
    /\ users \in SUBSET UserNames
    /\ files = {} /\ dirs = {} /\ procs = {}
    /\ ue \in [pc : {"new"}, username : UserNames, shadow : ShadowAnswers,
               errors : {ErrorsNone, ErrorsList(<<>>)}, pwd_entry : {FALSE},
               has_shadow : {FALSE}, lookups : {<<>>}, exc : {NoExc}]
    /\ MatchIdle /\ PreviewIdle
    /\ FcIdle /\ LayIdle /\ CliIdle /\ PeIdle
    /\ FieldsIdle

\* User(username=...): the dataclass __init__ followed by __post_init__
UserPostInit ==
    /\ ue.pc = "new"
    /\ LET r == post_init(users, ue.shadow, ue.username, ue.errors)
       IN ue' = [ue EXCEPT !.pc = IF r.exc = NoExc THEN "constructed" ELSE "raised",
                           !.errors = r.errors, !.pwd_entry = r.pwd_entry,
                           !.has_shadow = r.has_shadow, !.lookups = r.lookups,
                           !.exc = r.exc]
    /\ UNCHANGED <<matchVars, previewVars, fc, lay, cli, pe>>
    /\ UNCHANGED fieldVars

UserNext == UserPostInit

SpecUser == UserInit /\ [][UserNext]_vars

\* C20: constructing a User whose account lookup fails raises nothing: it
\* records exactly one error, "User '<name>' not found", and fetches no
\* further account attribute.
C20_LookupFailureRecorded ==
    (ue.pc \in {"constructed", "raised"} /\ ue.username \notin users) =>
        /\ ue.pc = "constructed"
        /\ ue.exc = NoExc
        /\ ~ue.errors.none
        /\ ue.errors.list = << <<"User '", ue.username, "' not found">> >>
        /\ ue.lookups = <<"getpwnam">>

(***************************************************************************)
(* Attribute reads of a File entity: what_cli/entities/file.py             *)
(***************************************************************************)
\* The largest number of changes of the underlying file, and of attribute
\* reads made outside get_sections.
MaxChanges == 2
MaxReads == 2

\* The File subclasses FileFactory constructs.
FileClasses == {"SymlinkFile", "Directory", "VideoFile", "AudioFile", "ImageFile",
                "TextFile", "CodeFile", "RegularFile"}

\* The subclasses of RegularFile, whose get_basic adds the MIME field.
RegularClasses == {"VideoFile", "AudioFile", "ImageFile", "TextFile", "CodeFile",
                   "RegularFile"}

\* The properties that read self._stat, a property that calls path.lstat().
StatProperties ==
    {"size", "owner", "user_group", "permissions", "created", "modified", "accessed"}

\* The attributes TextFile.__post_init__ stores on the entity.
StoredProperties == {"encoding", "line_count", "word_count"}

\* The collaborator-derived properties File.get_sections reads, in order:
\* get_basic, get_permissions, get_timestamps, get_content_sections.
SectionReads(kind) ==
    <<"size">>
    \o (IF kind \in RegularClasses THEN <<"mime_type">> ELSE <<>>)
    \o <<"owner", "user_group", "permissions", "created", "modified", "accessed">>
    \o (CASE kind = "TextFile" -> <<"encoding", "line_count", "word_count">>
          [] kind = "CodeFile" -> <<"language", "encoding", "line_count">>
          [] OTHER -> <<>>)

\* The properties an entity of that class has.
PropertiesOf(kind) ==
    StatProperties
    \cup (IF kind \in RegularClasses THEN {"mime_type"} ELSE {})
    \cup (IF kind \in {"TextFile", "CodeFile"} THEN StoredProperties ELSE {})
    \cup (IF kind = "CodeFile" THEN {"language"} ELSE {})

\* The lstat calls one read of the property makes: owner and user_group read _stat again
\* in their KeyError handlers.
StatCallsOf(attr, uid_known) ==
    IF attr \notin StatProperties THEN 0
    ELSE IF attr \in {"owner", "user_group"} /\ ~uid_known THEN 2
    ELSE 1

\* The value a read of the property returns: the stored value for what
\* __post_init__ stored, otherwise what the collaborator answers now.
PropertyValue(attr, version, built) ==
    IF attr \in StoredProperties THEN built ELSE version

RECURSIVE SumStatCalls(_, _)
SumStatCalls(attrs, uid_known) ==
    IF attrs = <<>> THEN 0
    ELSE StatCallsOf(Head(attrs), uid_known) + SumStatCalls(Tail(attrs), uid_known)

\* A File entity has just been constructed over a file at version 0.
FileReadsInit ==
    /\ fr \in [pc : {"built"}, kind : FileClasses, uid_known : BOOLEAN, version : {0},
               built : {0}, reads : {<<>>}, stat_calls : {0}]
    /\ files = {} /\ dirs = {} /\ procs = {} /\ users = {}
    /\ MatchIdle /\ PreviewIdle /\ EntitiesIdle
    /\ GsIdle /\ DrIdle /\ FpIdle /\ LinIdle /\ RpIdle /\ FmIdle

\* File.get_sections, consumed to the end
FileGetSections ==
    /\ fr.pc = "built"
    /\ fr' = [fr EXCEPT !.pc = "rendered",
                        !.stat_calls = SumStatCalls(SectionReads(fr.kind), fr.uid_known)]
    /\ UNCHANGED <<matchVars, previewVars, entityVars, gs, dr, fp, lin, rp, fm>>

\* One read of a property of the entity
ReadFileProperty(attr) ==
    /\ fr.pc \in {"built", "rendered"}
    /\ attr \in PropertiesOf(fr.kind)
    /\ Len(fr.reads) < MaxReads
    /\ fr' = [fr EXCEPT !.reads = Append(fr.reads,
                            [attr |-> attr,
                             value |-> PropertyValue(attr, fr.version, fr.built)])]
    /\ UNCHANGED <<matchVars, previewVars, entityVars, gs, dr, fp, lin, rp, fm>>

\* The underlying file is modified by another program.
FileChanges ==
    /\ fr.pc \in {"built", "rendered"}
    /\ fr.version < MaxChanges
    /\ fr' = [fr EXCEPT !.version = fr.version + 1]
    /\ UNCHANGED <<matchVars, previewVars, entityVars, gs, dr, fp, lin, rp, fm>>

FileReadsNext ==
    \/ FileGetSections
    \/ \E attr \in StatProperties \cup StoredProperties \cup {"mime_type", "language"} :
          ReadFileProperty(attr)
    \/ FileChanges

SpecFileReads == FileReadsInit /\ [][FileReadsNext]_vars

\* C21: every collaborator-derived attribute is fetched at most once in the
\* lifetime of an entity: producing all sections issues at most one stat
\* call, and two reads of one attribute return equal values even when the
\* file changed between them.
C21_AttributesMemoized ==
    /\ fr.pc = "rendered" => fr.stat_calls <= 1
    /\ \A i, j \in 1..Len(fr.reads) :
          fr.reads[i].attr = fr.reads[j].attr => fr.reads[i].value = fr.reads[j].value

(***************************************************************************)
(* Sections: get_sections of the entities and Section of                   *)
(* what_cli/fields/containers.py                                           *)
(***************************************************************************)
\* Section(name): fields are added afterwards, show_header defaults to False.
Section(name, fields) == [name |-> name, fields |-> fields, show_header |-> FALSE]

\* The labels present among optional ones.
Optional(present, label) == IF present THEN <<label>> ELSE <<>>

\* File.get_basic, with the overrides of SymlinkFile.add_path_fields and
\* RegularFile.get_basic.
get_basic(kind) ==
    Section("File",
            <<"Name", "Path">>
            \o Optional(kind = "SymlinkFile", "Link")
            \o <<"URI", "Size", "Type">>
            \o Optional(kind \in RegularClasses, "MIME"))

get_permissions == Section("Permissions", <<"Owner", "Group", "RWX">>)

get_timestamps == Section("Timestamps", <<"Created", "Modified", "Accessed">>)

\* get_content_sections of each File subclass; opt1 and opt2 say whether
\* the optional values of an audio or video file are present.
get_content_sections(kind, opt1, opt2) ==
    CASE kind = "ImageFile" -> <<Section("Image Information", <<"Resolution">>)>>
      [] kind = "AudioFile" ->
            <<Section("Audio Information",
                      <<"Audio Format", "Duration">>
                      \o Optional(opt1, "Bitrate") \o Optional(opt2, "Sample Rate"))>>
      [] kind = "VideoFile" ->
            <<Section("Video Information",
                      <<"Duration", "Resolution", "Codec">>
                      \o Optional(opt1, "Frame Rate") \o Optional(opt2, "Bitrate"))>>
      [] kind = "TextFile" ->
            <<Section("Content Information", <<"Encoding", "Lines", "Words">>)>>
      [] kind = "CodeFile" ->
            <<Section("Code Information", <<"Language", "Encoding", "Lines">>)>>
      [] kind = "Directory" -> <<Section("Directory Information", <<"Contains">>)>>
      [] OTHER -> <<>>

\* File.get_sections
FileSections(kind, opt1, opt2) ==
    <<get_basic(kind), get_permissions, get_timestamps>>
    \o get_content_sections(kind, opt1, opt2)

\* Process.get_sections
ProcessSections ==
    <<Section("Process Information", <<"Name", "PID", "Status", "Threads">>),
      Section("Resources", <<"CPU", "Nice", "Memory">>),
      Section("I/O Statistics", <<"Read", "Write">>),
      Section("Started", <<"Started", "Command", "User">>)>>

\* get_sections of an entity of that class.  entities/user.py takes Field
\* and FileSize from what_cli.fields, which defines neither name, so the
\* module does not load and User.get_sections produces nothing.
get_sections(kind, opt1, opt2) ==
    CASE kind \in FileClasses ->
            [sections |-> FileSections(kind, opt1, opt2), exc |-> NoExc]
      [] kind = "Process" -> [sections |-> ProcessSections, exc |-> NoExc]
      [] OTHER ->
            [sections |-> <<>>,
             exc |-> [type |-> "ImportError",
                      msg |-> <<"cannot import name 'Field' from 'what_cli.fields'">>]]

\* Section.__rich_console__: the table has a title row exactly when
\* show_header is set.
SectionTable(section) ==
    [title |-> IF section.show_header THEN <<section.name>> ELSE <<>>,
     rows |-> section.fields]

\* An entity exists and the command line has been parsed.
SectionsInit ==
    /\ gs \in [pc : {"built"}, kind : EntityClasses, headers : BOOLEAN, opt1 : BOOLEAN,
               opt2 : BOOLEAN, sections : {<<>>}, exc : {NoExc}, tables : {<<>>}]
    /\ files = {} /\ dirs = {} /\ procs = {} /\ users = {}
    /\ MatchIdle /\ PreviewIdle /\ EntitiesIdle
    /\ FrIdle /\ DrIdle /\ FpIdle /\ LinIdle /\ RpIdle /\ FmIdle

\* entity.get_sections(), consumed to the end
GetSections ==
    /\ gs.pc = "built"
    /\ LET r == get_sections(gs.kind, gs.opt1, gs.opt2)
       IN gs' = [gs EXCEPT !.pc = IF r.exc = NoExc THEN "listed" ELSE "raised",
                           !.sections = r.sections, !.exc = r.exc]
    /\ UNCHANGED <<matchVars, previewVars, entityVars, fr, dr, fp, lin, rp, fm>>

\* The console renders every Section of the entity.
RenderSections ==
    /\ gs.pc = "listed"
    /\ gs' = [gs EXCEPT !.pc = "rendered",
                        !.tables = [k \in 1..Len(gs.sections) |-> SectionTable(gs.sections[k])]]
    /\ UNCHANGED <<matchVars, previewVars, entityVars, fr, dr, fp, lin, rp, fm>>

SectionsNext == GetSections \/ RenderSections

SpecSections == SectionsInit /\ [][SectionsNext]_vars

\* The names of a list of sections.
SectionNames(sections) == [k \in 1..Len(sections) |-> sections[k].name]

\* C22: every File subtype yields File, Permissions, Timestamps and then
\* its own content sections; Process yields identity, resources, I/O and
\* provenance; User yields identity, groups, account details, login status
\* and process aggregate, each in that order.
C22_SectionOrder ==
    gs.pc \in {"listed", "raised", "rendered"} =>
        LET names == SectionNames(gs.sections)
        IN /\ gs.exc = NoExc
           /\ gs.kind \in FileSubtypes =>
                 /\ Len(names) >= 3
                 /\ SubSeq(names, 1, 3) = <<"File", "Permissions", "Timestamps">>
                 /\ \A k \in 4..Len(names) :
                       names[k] \notin {"File", "Permissions", "Timestamps"}
           /\ gs.kind = "Process" =>
                 names = <<"Process Information", "Resources", "I/O Statistics", "Started">>
           /\ gs.kind = "User" =>
                 names = <<"User Information", "Group Membership", "Account Details",
                           "Login Status", "Processes">>

\* C26: with the headers flag set every Section of the entity is rendered
\* with its title row, and without the flag none is.
C26_HeadersFlagControlsTitles ==
    gs.pc = "rendered" =>
        \A k \in 1..Len(gs.tables) : (gs.tables[k].title # <<>>) <=> gs.headers

(***************************************************************************)
(* Directory and DirectorySummary: what_cli/entities/file.py and           *)
(* what_cli/fields/semantic.py                                             *)
(***************************************************************************)
\* The largest number of entries of a directory.
MaxItems == 5

\* What an entry of a directory is: is_file(), is_dir() or neither.
ItemKinds == {"file", "dir", "other"}

DigitChars == <<"0", "1", "2", "3", "4", "5", "6", "7", "8", "9">>

\* The decimal digits of a natural number.
RECURSIVE Decimal(_)
Decimal(n) ==
    IF n < 10 THEN <<DigitChars[n + 1]>>
    ELSE Decimal(n \div 10) \o <<DigitChars[(n % 10) + 1]>>

\* The last three digits of a group, zero-padded.
Group3(n) ==
    <<DigitChars[(n \div 100) + 1], DigitChars[((n \div 10) % 10) + 1],
      DigitChars[(n % 10) + 1]>>

\* format(n, ","): decimal digits with a comma between groups of three.
RECURSIVE FormatThousands(_)
FormatThousands(n) ==
    IF n < 1000 THEN Decimal(n)
    ELSE FormatThousands(n \div 1000) \o <<",">> \o Group3(n % 1000)

\* sum(1 for item in items if <kind test>)
CountItems(items, kind) == Cardinality({k \in 1..Len(items) : items[k] = kind})

\* "; ".join(parts)
RECURSIVE JoinParts(_)
JoinParts(parts) ==
    IF parts = <<>> THEN <<>>
    ELSE IF Len(parts) = 1 THEN parts[1]
    ELSE parts[1] \o <<"; ">> \o JoinParts(Tail(parts))

\* The parts of DirectorySummary.__post_init__ in the wrong order.
SummaryParts_FilesFirst(ndirs, nfiles) ==
    (IF nfiles # 0 THEN << FormatThousands(nfiles) \o <<" files">> >> ELSE <<>>)
    \o (IF ndirs # 0
        THEN << FormatThousands(ndirs) \o <<" directories">> >> ELSE <<>>)

\* The parts DirectorySummary.__post_init__ collects: directories, then files,
\* each only when its count is not zero.
SummaryParts(ndirs, nfiles) ==
    (IF ndirs # 0
     THEN << FormatThousands(ndirs) \o <<" directories">> >> ELSE <<>>)
    \o (IF nfiles # 0 THEN << FormatThousands(nfiles) \o <<" files">> >> ELSE <<>>)

\* DirectorySummary(directories=..., files=...): the content and the hint.
DirectorySummary(ndirs, nfiles) ==
    [content |-> FormatThousands(ndirs + nfiles) \o <<" items">>,
     hint |-> JoinParts(SummaryParts(ndirs, nfiles))]

\* Directory.summary over the items __post_init__ listed.
summary(items) ==
    LET nfiles == CountItems(items, "file")
        ndirs == CountItems(items, "dir")
    IN DirectorySummary(ndirs, nfiles)

\* A path names a directory (or a symbolic link to one) with some entries.
DirectoryInit ==
    /\ dr \in [pc : {"path"},
               attrs : [is_symlink : BOOLEAN, is_dir : {TRUE}, mime : {Mime("inode", "directory")},
                        lexer : {"none"}],
               items : SeqsUpTo(ItemKinds, MaxItems), kind : {"none"},
               content : {<<>>}, hint : {<<>>}]
    /\ files = {} /\ dirs = {} /\ procs = {} /\ users = {}
    /\ MatchIdle /\ PreviewIdle /\ EntitiesIdle
    /\ FrIdle /\ GsIdle /\ FpIdle /\ LinIdle /\ RpIdle /\ FmIdle

\* match_file(name) for that path, and the summary of the entity it returns
ResolveDirectory ==
    /\ dr.pc = "path"
    /\ LET kind == from_path(dr.attrs)
           field == summary(dr.items)
       IN dr' = [dr EXCEPT !.pc = "resolved", !.kind = kind,
                           !.content = IF kind = "Directory" THEN field.content ELSE <<>>,
                           !.hint = IF kind = "Directory" THEN field.hint ELSE <<>>]
    /\ UNCHANGED <<matchVars, previewVars, entityVars, fr, gs, fp, lin, rp, fm>>

DirectoryNext == ResolveDirectory

SpecDirectory == DirectoryInit /\ [][DirectoryNext]_vars

\* The hint the claim describes for d subdirectories and f regular files.
ExpectedHint(d, f) ==
    IF d > 0 /\ f > 0
    THEN FormatThousands(d) \o <<" directories", "; ">> \o FormatThousands(f) \o <<" files">>
    ELSE IF d > 0 THEN FormatThousands(d) \o <<" directories">>
    ELSE IF f > 0 THEN FormatThousands(f) \o <<" files">>
    ELSE <<>>

\* C23: resolving the path of a directory holding f regular files and d
\* subdirectories yields a Directory whose content section reports
\* '<f+d> items' with a hint that lists the directory count before the file
\* count, separated by '; ', without any count that is zero.
C23_DirectorySummary ==
    (dr.pc = "resolved" /\ ~dr.attrs.is_symlink) =>
        LET f == CountItems(dr.items, "file")
            d == CountItems(dr.items, "dir")
        IN /\ dr.kind = "Directory"
           /\ dr.content = FormatThousands(f + d) \o <<" items">>
           /\ dr.hint = ExpectedHint(d, f)

\* 3 files and 2 subdirectories give '5 items' with hint '2 directories; 3 files'.
C23_Witness ==
    /\ dr.pc = "resolved" /\ ~dr.attrs.is_symlink
    /\ dr.items = <<"file", "dir", "file", "dir", "file">>
    /\ dr.content = <<"5", " items">>
    /\ dr.hint = <<"2", " directories", "; ", "3", " files">>

(***************************************************************************)
(* Numeric queries of the resolver                                         *)
(***************************************************************************)
\* C24: for a purely numeric query that is no file, the process test tries the
\* string as a process ID first; when no live process has that PID it goes on
\* to the process-name check and then to the username check, so a numeric
\* name of a running process or of an account is still resolved.
C24_NumericFallsThrough ==
    (/\ mPc = "done" /\ ~mKinds.given
     /\ is_int(mQuery)
     /\ abspath(mQuery) \notin files \cup dirs) =>
        IF \E p \in procs : p.pid = int(mQuery)
        THEN result = ProcessEntity(int(mQuery))
        ELSE IF \E p \in procs : p.name = mQuery
        THEN /\ exc = NoExc
             /\ result.type = "Process"
             /\ \E p \in procs : p.name = mQuery /\ p.pid = result.pid
        ELSE IF mQuery \in users
        THEN result = UserEntity(mQuery)
        ELSE TRUE

\* C25: a purely numeric query is never resolved to a File entity because a
\* file system entry of that name exists.
C25_NumericNeverFile ==
    (mPc = "done" /\ ~mKinds.given /\ is_int(mQuery)) => result.type # "File"

(***************************************************************************)
(* FilePermissions: what_cli/fields/permissions.py                         *)
(***************************************************************************)
\* The masks of the stat module.
S_IRUSR == 256
S_IWUSR == 128
S_IXUSR == 64
S_IRGRP == 32
S_IWGRP == 16
S_IXGRP == 8
S_IROTH == 4
S_IWOTH == 2
S_IXOTH == 1

\* The largest value of the bits of a mode above the low nine.
MaxHigh == 7

\* The modes: every value of the low nine bits under every value of the
\* bits above them.
Modes == 0..(2 * S_IRUSR * (MaxHigh + 1) - 1)

\* The members of the enums, in definition order.
Permission == <<"r", "w", "x">>
PermissionType == <<"u", "g", "o">>

\* Permission.colour
colour(permission) ==
    CASE permission = "r" -> "yellow"
      [] permission = "w" -> "red"
      [] permission = "x" -> "green"
      [] OTHER -> "white"

\* PERMISSION_TO_MASK with the group and other masks exchanged.
PERMISSION_TO_MASK_Swapped(permission, permission_type) ==
    CASE permission = "r" /\ permission_type = "u" -> S_IRUSR
      [] permission = "w" /\ permission_type = "u" -> S_IWUSR
      [] permission = "x" /\ permission_type = "u" -> S_IXUSR
      [] permission = "r" /\ permission_type = "g" -> S_IROTH
      [] permission = "w" /\ permission_type = "g" -> S_IWOTH
      [] permission = "x" /\ permission_type = "g" -> S_IXOTH
      [] permission = "r" /\ permission_type = "o" -> S_IRGRP
      [] permission = "w" /\ permission_type = "o" -> S_IWGRP
      [] permission = "x" /\ permission_type = "o" -> S_IXGRP

PERMISSION_TO_MASK(permission, permission_type) ==
    CASE permission = "r" /\ permission_type = "u" -> S_IRUSR
      [] permission = "w" /\ permission_type = "u" -> S_IWUSR
      [] permission = "x" /\ permission_type = "u" -> S_IXUSR
      [] permission = "r" /\ permission_type = "g" -> S_IRGRP
      [] permission = "w" /\ permission_type = "g" -> S_IWGRP
      [] permission = "x" /\ permission_type = "g" -> S_IXGRP
      [] permission = "r" /\ permission_type = "o" -> S_IROTH
      [] permission = "w" /\ permission_type = "o" -> S_IWOTH
      [] permission = "x" /\ permission_type = "o" -> S_IXOTH

\* a & b on natural numbers
RECURSIVE BitAnd(_, _)
BitAnd(a, b) ==
    IF a = 0 \/ b = 0 THEN 0
    ELSE (a % 2) * (b % 2) + 2 * BitAnd(a \div 2, b \div 2)

\* FilePermission(permission, permission_type, value)
FilePermission(permission, permission_type, value) ==
    [permission |-> permission, permission_type |-> permission_type, value |-> value]

\* FilePermissions.get_bits: the outer loop over the types, the inner loop
\* over the permissions.
get_bits(mode) ==
    [k \in 1..(Len(PermissionType) * Len(Permission)) |->
        LET permission_type == PermissionType[((k - 1) \div Len(Permission)) + 1]
            permission == Permission[((k - 1) % Len(Permission)) + 1]
            mask == PERMISSION_TO_MASK(permission, permission_type)
            bit == BitAnd(mode, mask)
        IN FilePermission(permission, permission_type, bit # 0)]

\* FilePermission.__rich__: console markup around the letter, or NOT_SET.
PermissionMarkup(bit) ==
    IF bit.value THEN <<"[" \o colour(bit.permission) \o "]", bit.permission, "[/]">>
    ELSE <<"-">>

\* FilePermissions.__str__: the markup of the bits, joined.
PermissionsStr(bits) == Concat([k \in 1..Len(bits) |-> PermissionMarkup(bits[k])])

\* A markup tag, which the console turns into a style and does not show.
IsTag(token) == token \in {"[yellow]", "[red]", "[green]", "[white]", "[/]"}

\* The characters the console shows for a markup string.
RECURSIVE RenderMarkup(_)
RenderMarkup(tokens) ==
    IF tokens = <<>> THEN <<>>
    ELSE (IF IsTag(Head(tokens)) THEN <<>> ELSE <<Head(tokens)>>)
         \o RenderMarkup(Tail(tokens))

\* FilePermissions(mode) for some st_mode
PermissionsInit ==
    /\ fp \in [pc : {"new"}, mode : Modes, bits : {<<>>}, str : {<<>>}, shown : {<<>>}]
    /\ files = {} /\ dirs = {} /\ procs = {} /\ users = {}
    /\ MatchIdle /\ PreviewIdle /\ EntitiesIdle
    /\ FrIdle /\ GsIdle /\ DrIdle /\ LinIdle /\ RpIdle /\ FmIdle

\* The RWX field is rendered: get_bits, __str__ and the console's markup.
RenderPermissions ==
    /\ fp.pc = "new"
    /\ LET bits == get_bits(fp.mode)
       IN fp' = [fp EXCEPT !.pc = "rendered", !.bits = bits,
                           !.str = PermissionsStr(bits),
                           !.shown = RenderMarkup(PermissionsStr(bits))]
    /\ UNCHANGED <<matchVars, previewVars, entityVars, fr, gs, dr, lin, rp, fm>>

PermissionsNext == RenderPermissions

SpecPermissions == PermissionsInit /\ [][PermissionsNext]_vars

\* Bit k of the low nine bits of a mode, counted from the most significant.
ModeBit(mode, k) == ((mode % (2 * S_IRUSR)) \div (2 ^ (9 - k))) % 2 = 1

\* C27: get_bits returns nine entries ordered user, group, other and within
\* each read, write, execute; an entry is set exactly when the
\* corresponding bit of the mode is set; the rendered string shows the
\* letter of a set bit and '-' for a clear one; the bits of the mode above
\* the low nine play no part.
C27_PermissionBits ==
    fp.pc = "rendered" =>
        /\ Len(fp.bits) = 9
        /\ [k \in 1..9 |-> fp.bits[k].permission_type] =
              <<"u", "u", "u", "g", "g", "g", "o", "o", "o">>
        /\ [k \in 1..9 |-> fp.bits[k].permission] =
              <<"r", "w", "x", "r", "w", "x", "r", "w", "x">>
        /\ \A k \in 1..9 : fp.bits[k].value <=> ModeBit(fp.mode, k)
        /\ fp.shown = [k \in 1..9 |->
                          IF ModeBit(fp.mode, k) THEN fp.bits[k].permission ELSE "-"]

\* A set-uid file with mode rwxr-xr-x.
C27_Witness ==
    /\ fp.pc = "rendered"
    /\ fp.mode = 2 * S_IRUSR * 4 + S_IRUSR + S_IWUSR + S_IXUSR + S_IRGRP + S_IXGRP
                 + S_IROTH + S_IXOTH
    /\ fp.shown = <<"r", "w", "x", "r", "-", "x", "r", "-", "x">>

(***************************************************************************)
(* Process.get_lineage: what_cli/entities/process.py                       *)
(***************************************************************************)
\* The number of processes of the system.
MaxProcs == 4

\* The process trees: every process has an older process as its parent, or
\* the parent PID 0.
ProcessTrees == {t \in [1..MaxProcs -> 0..MaxProcs] : \A p \in 1..MaxProcs : t[p] < p}

\* list(reversed(ancestors))
reversed(seq) == [k \in 1..Len(seq) |-> seq[Len(seq) + 1 - k]]

\* get_lineage has been called on the entity of a live process:
\* ancestors = [self.process], current = ancestors[0].
LineageInit ==
    /\ \E t \in ProcessTrees, p \in 1..MaxProcs :
          lin = [pc |-> "walking", ppid |-> t, alive |-> 1..MaxProcs, process |-> p,
                 ancestors |-> <<p>>, current |-> p, exc |-> "none", ret |-> <<>>]
    /\ files = {} /\ dirs = {} /\ procs = {} /\ users = {}
    /\ MatchIdle /\ PreviewIdle /\ EntitiesIdle
    /\ FrIdle /\ GsIdle /\ DrIdle /\ FpIdle /\ RpIdle /\ FmIdle

\* One test of the while condition and, when it holds, one pass of the body.
\* current.ppid() in the condition is outside the try block; the handle
\* psutil.Process(current.ppid()) is made inside it.
LineageStep ==
    /\ lin.pc = "walking"
    /\ IF lin.current \notin lin.alive
       THEN lin' = [lin EXCEPT !.pc = "raised", !.exc = "NoSuchProcess"]
       ELSE IF lin.ppid[lin.current] = 0 \/ lin.ppid[lin.current] \notin lin.alive
       THEN lin' = [lin EXCEPT !.pc = "returned", !.ret = reversed(lin.ancestors)]
       ELSE lin' = [lin EXCEPT !.ancestors = Append(lin.ancestors, lin.ppid[lin.current]),
                               !.current = lin.ppid[lin.current]]
    /\ UNCHANGED <<matchVars, previewVars, entityVars, fr, gs, dr, fp, rp, fm>>

\* A process of the system exits.
LineageProcessExits(p) ==
    /\ lin.pc = "walking"
    /\ p \in lin.alive
    /\ lin' = [lin EXCEPT !.alive = lin.alive \ {p}]
    /\ UNCHANGED <<matchVars, previewVars, entityVars, fr, gs, dr, fp, rp, fm>>

LineageNext ==
    \/ LineageStep
    \/ \E p \in 1..MaxProcs : LineageProcessExits(p)

SpecLineage == LineageInit /\ [][LineageNext]_vars

\* C28: get_lineage returns the ancestor chain, root-most first and the
\* queried process last, each element the parent of the next; the walk
\* stops at parent PID 0 or when a parent lookup reports NoSuchProcess or
\* AccessDenied, and then returns the chain collected so far.
C28_LineageReturnsChain ==
    /\ lin.pc # "raised"
    /\ lin.pc = "returned" =>
          /\ Len(lin.ret) >= 1
          /\ lin.ret[Len(lin.ret)] = lin.process
          /\ \A k \in 1..(Len(lin.ret) - 1) : lin.ppid[lin.ret[k + 1]] = lin.ret[k]

(***************************************************************************)
(* find_process_by_pid while processes exit: what_cli/matcher.py           *)
(***************************************************************************)
\* The queries: the names of the resolver, the other process ID and a process
\* ID written with a leading zero.
PidQueries == Names \cup {<<"9">>, <<"0", "7">>}

\* find_process_by_pid(name) has been called.
PidRaceInit ==
    /\ procs \in ProcTables
    /\ files = {} /\ dirs = {} /\ users = {}
    /\ mPc = "idle" /\ mQuery = <<>> /\ mKinds = NoKinds /\ calls = <<>>
    /\ result = NoneValue /\ exc = NoExc
    /\ rp \in [pc : {"called"}, name : PidQueries, pid : {0}, result : {0}, exc : {"none"}]
    /\ PreviewIdle /\ EntitiesIdle
    /\ FrIdle /\ GsIdle /\ DrIdle /\ FpIdle /\ LinIdle /\ FmIdle

\* is_int(name) and psutil.pid_exists(int(name))
PidExists ==
    /\ rp.pc = "called"
    /\ IF is_int(rp.name) /\ (\E p \in procs : p.pid = int(rp.name))
       THEN rp' = [rp EXCEPT !.pc = "exists", !.pid = int(rp.name)]
       ELSE rp' = [rp EXCEPT !.pc = "returned", !.result = 0]
    /\ UNCHANGED <<matchVars, previewVars, entityVars, fr, gs, dr, fp, lin, fm>>

\* process = psutil.Process(pid); return process
MakeHandle ==
    /\ rp.pc = "exists"
    /\ IF \E p \in procs : p.pid = rp.pid
       THEN rp' = [rp EXCEPT !.pc = "returned", !.result = rp.pid]
       ELSE rp' = [rp EXCEPT !.pc = "raised", !.exc = "NoSuchProcess"]
    /\ UNCHANGED <<matchVars, previewVars, entityVars, fr, gs, dr, fp, lin, fm>>

\* A live process exits while the call is in progress.
RunningProcessExits(p) ==
    /\ rp.pc \in {"called", "exists"}
    /\ p \in procs
    /\ procs' = procs \ {p}
    /\ UNCHANGED <<files, dirs, users, mPc, mQuery, mKinds, calls, result, exc>>
    /\ UNCHANGED <<previewVars, entityVars, fieldVars>>

PidRaceNext ==
    \/ PidExists
    \/ MakeHandle
    \/ \E p \in [pid : Pids, name : Names] : RunningProcessExits(p)

SpecPidRace == PidRaceInit /\ [][PidRaceNext]_vars

\* C29: find_process_by_pid returns a process handle or None and never
\* raises, even when the process exits between the pid-exists check and
\* the construction of the handle.
C29_PidLookupNeverRaises ==
    /\ rp.pc # "raised"
    /\ rp.pc = "returned" => rp.result \in {0} \cup Pids

(***************************************************************************)
(* File.match over symbolic links: what_cli/entities/file.py               *)
(***************************************************************************)
\* The paths of the file system: those the names resolve to and one more,
\* the target of links.
FsPaths == Paths \cup {<<"/", "t">>}

\* What a path holds: nothing, a regular file, a directory, something else
\* (a socket, a device) or a symbolic link to a path.
FsEntries ==
    [type : {"absent", "file", "dir", "other"}, target : {<<>>}]
    \cup [type : {"link"}, target : FsPaths]

FileSystems == [FsPaths -> FsEntries]

\* os.lstat in the place of os.stat: the entry itself.
stat_NoFollow(fs, path, hops) == fs[path].type

\* os.stat(path): the entry after following symbolic links; a chain that
\* does not end within the number of paths is a loop and fails like a
\* missing file.
RECURSIVE stat(_, _, _)
stat(fs, path, hops) ==
    IF fs[path].type # "link" THEN fs[path].type
    ELSE IF hops = 0 THEN "absent"
    ELSE stat(fs, fs[path].target, hops - 1)

\* os.path.isfile and os.path.isdir
isfile(fs, path) == stat(fs, path, Cardinality(FsPaths)) = "file"
isdir(fs, path) == stat(fs, path, Cardinality(FsPaths)) = "dir"

\* The attributes FileFactory.from_path sees for a path that is not text,
\* media or code.
PathAttrs(fs, path) ==
    [is_symlink |-> fs[path].type = "link", is_dir |-> isdir(fs, path),
     mime |-> Mime("application", "octet-stream"), lexer |-> "none"]

\* File.match(name), and match_file(name) of the resolver, which has the
\* same body: the class of the entity returned, or "None".
file_match(fs, name) ==
    LET abs_path == abspath(name)
    IN IF isfile(fs, abs_path) \/ isdir(fs, abs_path)
       THEN from_path(PathAttrs(fs, abs_path))
       ELSE "None"

\* A file system, the processes and accounts, and a name to resolve; files
\* and dirs are what os.path.isfile and os.path.isdir answer.
FileMatchInit ==
    /\ \E fs \in FileSystems, name \in Names :
          /\ fm = [pc |-> "called", fs |-> fs, name |-> name, file |-> "None",
                   match_file |-> "None", calls |-> <<>>, result |-> NoneValue]
          /\ files = {p \in Paths : isfile(fs, p)}
          /\ dirs = {p \in Paths : isdir(fs, p)}
    /\ procs = {}
    /\ users \in SUBSET Names
    /\ MatchIdle /\ PreviewIdle /\ EntitiesIdle
    /\ FrIdle /\ GsIdle /\ DrIdle /\ FpIdle /\ LinIdle /\ RpIdle

\* File.match(name), match_file(name) and the resolver's cascade for name
FileMatchCall ==
    /\ fm.pc = "called"
    /\ LET r == MatchBody(files, dirs, procs, users, fm.name)
       IN fm' = [fm EXCEPT !.pc = "done",
                           !.file = file_match(fm.fs, fm.name),
                           !.match_file = file_match(fm.fs, fm.name),
                           !.calls = r.calls,
                           !.result = r.result]
    /\ UNCHANGED <<matchVars, previewVars, entityVars, fr, gs, dr, fp, lin, rp>>

FileMatchNext == FileMatchCall

SpecFileMatch == FileMatchInit /\ [][FileMatchNext]_vars

\* One hop along a symbolic link; other entries stay where they are.
Hop(fs, path) == IF fs[path].type = "link" THEN fs[path].target ELSE path

\* What a path leads to after following symbolic links: the type of the
\* entry reached after as many hops as there are paths, when that is no
\* link.
LeadsTo(fs, path) ==
    LET last == Hop(fs, Hop(fs, Hop(fs, path)))
    IN IF fs[last].type = "link" THEN "absent" ELSE fs[last].type

\* C30: File.match and match_file return a File entity exactly when the
\* absolute path, following symbolic links, is an existing regular file or
\* directory; a symbolic link whose target does not exist yields None, not a
\* SymlinkFile, and the resolver goes on to the process and user checks.
C30_FileMatchFollowsLinks ==
    fm.pc = "done" =>
        LET abs_path == abspath(fm.name)
            exists == LeadsTo(fm.fs, abs_path) \in {"file", "dir"}
        IN /\ fm.file # "None" <=> exists
           /\ fm.match_file # "None" <=> exists
           /\ fm.result.type = "File" <=> exists
           /\ (fm.fs[abs_path].type = "link" /\ ~exists) =>
                 /\ fm.file = "None"
                 /\ \E k \in 1..Len(fm.calls) : fm.calls[k].fn = "match_process"
                 /\ \E k \in 1..Len(fm.calls) : fm.calls[k].fn = "user_exists"

\* A link named 7 whose target is missing is not a file; the account 7 is
\* found instead.
C30_Witness ==
    /\ fm.pc = "done"
    /\ fm.name = <<"7">>
    /\ fm.fs[abspath(fm.name)] = [type |-> "link", target |-> <<"/", "t">>]
    /\ fm.fs[<<"/", "t">>].type = "absent"
    /\ fm.file = "None"
    /\ fm.result = UserEntity(<<"7">>)

====
